---- MODULE Spec2Model ----
(***************************************************************************)
(* The search-indexing pipeline of pritunl-zero (src/search/search.go):    *)
(* the ingestion entry point Index, the config watcher watchSearch/update/ *)
(* putIndex/newClient/hashAddresses and the flush worker.                  *)
(*                                                                         *)
(* Every action is one step between two accesses of shared state (client,  *)
(* buffer, failedBuffer, lock, failedLock, settings) of one goroutine.     *)
(* Variables that are not in the source record history for the properties  *)
(* and are marked "history".                                               *)
(***************************************************************************)
EXTENDS Integers, Sequences, FiniteSets, TLC

\* ---------------------------------------------------------------- bounds
\* Number of requests Index may build (bson.NewObjectId calls).
MaxRequests == 2
\* Longest mapping list handed to putIndex in MapSpec.
MaxFields == 2
\* Longest address list configured in WatchSpec.
MaxAddrs == 2

\* ------------------------------------------------------ program constants
\* worker: for i := 0; i < 10; i++
MaxAttempts == 10

\* The nil *elastic.Client.  A client that is not nil is written as the
\* address list elastic.NewClient bound it to (SetURL(addrs...)), which is
\* never empty.
Nil == << >>

\* Goroutines calling Index concurrently (request handlers).
Callers == {"h1", "h2"}

\* Values settings.Elastic.Addresses takes.
AddrLists == {<< >>, <<"a">>, <<"b">>}

VARIABLES
    settings,      \* settings.Elastic.Addresses
    client,        \* package variable client (Nil = Absent)
    buffer,        \* package variable buffer (container/list), front first
    failedBuffer,  \* package variable failedBuffer
    lock,          \* owner of the mutex lock, or "free"
    failedLock,    \* owner of the mutex failedLock, or "free"
    nextId,        \* number of object ids generated so far
    \* watchSearch / update / putIndex
    wpc,           \* position of the watcher
    hash,          \* watchSearch: hash
    addrs,         \* watchSearch: addrs (newHash is hashAddresses(addrs))
    uerr,          \* update: err returned to watchSearch
    mappings,      \* update: mappings (MapSpec: the list handed to putIndex)
    payload,       \* putIndex: data handed to CreateIndex().BodyJson
    \* worker
    fpc,           \* position of the flush worker
    requests,      \* worker: requests
    clnt,          \* worker: clnt
    i,             \* worker: i
    err,           \* worker: err (TRUE: not nil)
    \* Index
    ipc,           \* position of each caller of Index
    ireq,          \* Index: request (its id), per caller
    \* history
    verified,      \* the index was found or created through the object in client
    pushOrder,     \* the requests pushed and not yet drained by a finished
                   \* tick, in the order of buffer.PushBack
    accepted,      \* per request: bulk submissions carrying it that the
                   \* backend accepted (0, 1, 2 = more than one)
    lastBulk,      \* this tick's latest bulk submission: <<handle, requests>>
    discarded,     \* requests drained on a tick that ended at "client == nil"
    outcome,       \* what the backend answered during the update that just ran
    hashed,        \* the address list whose hash is stored in hash
    tried          \* how the latest update of the list now configured ended,
                   \* since that list was stored: "no" (none yet), "failed", "ok"

vars == <<settings, client, buffer, failedBuffer, lock, failedLock, nextId,
          wpc, hash, addrs, uerr, mappings, payload, fpc,
          requests, clnt, i, err, ipc, ireq, verified, pushOrder, accepted,
          lastBulk, discarded, outcome, hashed, tried>>

sharedVars == <<settings, client, buffer, failedBuffer, lock, failedLock>>
watchVars == <<wpc, hash, addrs, uerr, mappings, payload,
               verified, outcome, hashed, tried>>
workerVars == <<fpc, requests, clnt, i, err, accepted, lastBulk, discarded>>
indexVars == <<ipc, ireq, nextId>>

Range(s) == {s[k] : k \in 1..Len(s)}
\* A count kept as 0, 1 or 2 for "more than one".
Bump(n) == IF n < 2 THEN n + 1 ELSE 2

\* ------------------------------------------------------------ pure code

\* The bytes io.WriteString feeds to the hash, in order.
RECURSIVE Written(_)
Written(as) == IF as = << >> THEN "" ELSE Head(as) \o Written(Tail(as))

\* hashAddresses: md5 over the written bytes.  md5 is taken as injective on
\* the byte strings of the model, so two lists collide exactly when they
\* write the same bytes.
hashAddresses(as) == Written(as)

\* A putIndex that has no case for the "object" type.
PropertyFlat(m) == [type |-> m.Type, store |-> m.Store, index |-> m.Index]

\* putIndex: the property of one mapping.
Property(m) ==
    IF m.Type = "object"
    THEN [enabled |-> FALSE]
    ELSE [type |-> m.Type, store |-> m.Store, index |-> m.Index]

\* putIndex: properties after the loop over mappings (a later mapping of the
\* same Field overwrites an earlier one).
RECURSIVE Properties(_)
Properties(ms) ==
    IF ms = << >> THEN << >>
    ELSE LET m == ms[Len(ms)]
         IN (m.Field :> Property(m)) @@ Properties(SubSeq(ms, 1, Len(ms) - 1))

\* putIndex: data, the body of the CreateIndex call.
PutIndexBody(typ, ms) ==
    [mappings |-> (typ :> [properties |-> Properties(ms)])]

Mapping(f, t, s, x) == [Field |-> f, Type |-> t, Store |-> s, Index |-> x]

\* update: the built-in mapping list.
Catalog ==
    << Mapping("user", "keyword", FALSE, "analyzed"),
       Mapping("session", "keyword", FALSE, "analyzed"),
       Mapping("address", "ip", FALSE, "analyzed"),
       Mapping("timestamp", "date", FALSE, "analyzed"),
       Mapping("scheme", "keyword", FALSE, "analyzed"),
       Mapping("host", "keyword", FALSE, "analyzed"),
       Mapping("path", "keyword", FALSE, "analyzed"),
       Mapping("query", "object", FALSE, ""),
       Mapping("header", "object", FALSE, ""),
       Mapping("body", "text", FALSE, "no") >>

\* ------------------------------------------------------------------ Init

\* The package variables and the three kinds of goroutine at process start,
\* but for the watcher's position and the lists it works on.
InitRest ==
    /\ client = Nil
    /\ buffer = << >>
    /\ failedBuffer = << >>
    /\ lock = "free"
    /\ failedLock = "free"
    /\ nextId = 0
    /\ hash = hashAddresses(<< >>)
    /\ uerr = FALSE
    /\ payload = << >>
    /\ fpc = "sleep"
    /\ requests = << >>
    /\ clnt = Nil
    /\ i = 0
    /\ err = FALSE
    /\ ipc = [p \in Callers |-> "idle"]
    /\ ireq = [p \in Callers |-> 0]
    /\ verified = FALSE
    /\ pushOrder = << >>
    /\ accepted = [r \in 1..MaxRequests |-> 0]
    /\ lastBulk = << >>
    /\ discarded = {}
    /\ outcome = "none"
    /\ hashed = << >>
    /\ tried = "no"

Init ==
    /\ InitRest
    /\ settings = << >>
    /\ wpc = "poll"
    /\ addrs = << >>
    /\ mappings = Catalog

\* A nil dereference in the worker goroutine is a panic nobody recovers: the
\* process ends, and with it every goroutine.
Running == fpc # "crashed"

\* newClient: the client elastic.NewClient returns for a non-empty list.
NewObject(as) == as

\* ------------------------------------------------- the settings collaborator

\* An administrator stores another address list.
SetAddresses(as) ==
    /\ Running
    /\ as # settings
    /\ settings' = as
    /\ tried' = "no"
    /\ UNCHANGED <<client, buffer, failedBuffer, lock, failedLock>>
    /\ UNCHANGED <<wpc, hash, addrs, uerr, mappings, payload, verified, outcome>>
    /\ UNCHANGED <<hashed, workerVars, indexVars, pushOrder>>

\* ------------------------------------------- watchSearch, update, putIndex

\* What the backend answers to one update of a non-empty list:
\*   "clientErr"  elastic.NewClient fails
\*   "existsErr"  IndexExists fails
\*   "exists"     IndexExists finds the index
\*   "createErr"  the index is missing and CreateIndex fails
\*   "created"    the index is missing and CreateIndex succeeds
Outcomes == {"clientErr", "existsErr", "exists", "createErr", "created"}

\* putIndex: does it reach the CreateIndex call?
Creates(res) == res \in {"createErr", "created"}

\* putIndex: err, for a client that was constructed.
PutIndexErr(res) == res \in {"existsErr", "createErr"}

\* putIndex: IndexExists answered true, or CreateIndex succeeded.
Provisioned(res) == res \in {"exists", "created"}

\* An update that lets a failed IndexExists pass.
UpdateErrLax(res) == res \in {"clientErr", "createErr"}

\* update: err.
UpdateErr(res) == res = "clientErr" \/ PutIndexErr(res)

\* An update that stores the client as soon as it is constructed.
UpdateClientEarly(res, new) == IF res = "clientErr" THEN Nil ELSE new

\* update: the value it leaves in client: nil on every error return,
\* the new client otherwise.
UpdateClient(res, new) == IF UpdateErr(res) THEN Nil ELSE new

\* A watcher that calls update on every iteration.
ChangedAlways(as) == TRUE

\* watchSearch: does the hash of the list just read differ from the stored one?
Changed(as) == hash # hashAddresses(as)

\* A watcher that adopts newHash whatever update returned.
AdoptAlways(failed) == hashAddresses(addrs)

\* watchSearch: the hash after update returned err.
Adopt(failed) == IF failed THEN hash ELSE hashAddresses(addrs)

\* watchSearch: read the configured list, hash it and compare; on no change
\* sleep and poll again (addrs is read again before its next use).
W_Poll ==
    /\ Running
    /\ wpc = "poll"
    /\ IF Changed(settings)
       THEN addrs' = settings /\ wpc' = "update"
       ELSE UNCHANGED <<addrs, wpc>>
    /\ UNCHANGED <<hash, uerr, mappings, payload, verified, outcome, hashed, tried>>
    /\ UNCHANGED <<sharedVars, workerVars, indexVars, pushOrder>>

\* update of an empty list: newClient returns nil, nil;
\* "client = nil; return" without an error.
W_UpdateEmpty ==
    /\ Running
    /\ wpc = "update"
    /\ Len(addrs) = 0
    /\ client' = Nil
    /\ verified' = FALSE
    /\ uerr' = FALSE
    /\ wpc' = "ret"
    /\ outcome' = "empty"
    /\ tried' = IF addrs = settings THEN "ok" ELSE tried
    /\ UNCHANGED <<hash, addrs, mappings, payload, hashed>>
    /\ UNCHANGED <<settings, buffer, failedBuffer, lock, failedLock>>
    /\ UNCHANGED <<workerVars, indexVars, pushOrder>>

\* update of a non-empty list: newClient, putIndex (IndexExists, and
\* CreateIndex with the body built from mappings when the index is missing),
\* then the one write of client.  The calls before the write touch no shared
\* variable.
W_Update(res) ==
    /\ Running
    /\ wpc = "update"
    /\ Len(addrs) # 0
    /\ outcome' = res
    /\ tried' = IF addrs # settings THEN tried
              ELSE IF Provisioned(res) THEN "ok" ELSE "failed"
    /\ payload' = IF Creates(res) THEN PutIndexBody("request", mappings) ELSE payload
    /\ client' = UpdateClient(res, NewObject(addrs))
    /\ verified' = Provisioned(res)
    /\ uerr' = UpdateErr(res)
    /\ wpc' = "ret"
    /\ UNCHANGED <<hash, addrs, mappings, hashed>>
    /\ UNCHANGED <<settings, buffer, failedBuffer, lock, failedLock>>
    /\ UNCHANGED <<workerVars, indexVars, pushOrder>>

\* watchSearch: after update returns, adopt newHash unless it failed (then
\* sleep 3s and poll again); the locals of update and putIndex are gone.
W_Return ==
    /\ Running
    /\ wpc = "ret"
    /\ hash' = Adopt(uerr)
    /\ hashed' = IF hash' = hash THEN hashed ELSE addrs
    /\ wpc' = "poll"
    /\ uerr' = FALSE
    /\ addrs' = << >>
    /\ payload' = << >>
    /\ outcome' = "none"
    /\ UNCHANGED <<mappings, verified, tried>>
    /\ UNCHANGED <<sharedVars, workerVars, indexVars, pushOrder>>

\* ------------------------------------------------------------------ Index

\* An Index without the nil test.
I_ReadNoCheck(p) ==
    /\ Running
    /\ ipc[p] = "idle"
    /\ nextId < MaxRequests
    /\ nextId' = nextId + 1
    /\ ireq' = [ireq EXCEPT ![p] = nextId + 1]
    /\ ipc' = [ipc EXCEPT ![p] = "lock"]
    /\ UNCHANGED <<sharedVars, watchVars, workerVars, pushOrder>>

\* Index: clnt := client; return if nil, else build the request with a
\* fresh object id.
I_Read(p) ==
    /\ Running
    /\ ipc[p] = "idle"
    /\ IF client = Nil
       THEN /\ ipc' = [ipc EXCEPT ![p] = "dropped"]
            /\ UNCHANGED <<ireq, nextId>>
       ELSE /\ nextId < MaxRequests
            /\ nextId' = nextId + 1
            /\ ireq' = [ireq EXCEPT ![p] = nextId + 1]
            /\ ipc' = [ipc EXCEPT ![p] = "lock"]
    /\ UNCHANGED <<sharedVars, watchVars, workerVars, pushOrder>>

\* Index: the return taken when clnt == nil.
I_Dropped(p) ==
    /\ Running
    /\ ipc[p] = "dropped"
    /\ ipc' = [ipc EXCEPT ![p] = "idle"]
    /\ UNCHANGED <<ireq, nextId>>
    /\ UNCHANGED <<sharedVars, watchVars, workerVars, pushOrder>>

\* Index: lock.Lock()
I_Lock(p) ==
    /\ Running
    /\ ipc[p] = "lock"
    /\ lock = "free"
    /\ lock' = p
    /\ ipc' = [ipc EXCEPT ![p] = "push"]
    /\ UNCHANGED <<ireq, nextId>>
    /\ UNCHANGED <<settings, client, buffer, failedBuffer, failedLock>>
    /\ UNCHANGED <<watchVars, workerVars, pushOrder>>

\* Index: buffer.PushBack(request); lock.Unlock(); return
I_Push(p) ==
    /\ Running
    /\ ipc[p] = "push"
    /\ buffer' = Append(buffer, ireq[p])
    /\ pushOrder' = Append(pushOrder, ireq[p])
    /\ lock' = "free"
    /\ ipc' = [ipc EXCEPT ![p] = "idle"]
    /\ ireq' = [ireq EXCEPT ![p] = 0]
    /\ UNCHANGED nextId
    /\ UNCHANGED <<settings, client, failedBuffer, failedLock>>
    /\ UNCHANGED <<watchVars, workerVars>>

\* ----------------------------------------------------------------- worker

\* worker: the tick is over; requests, clnt, i and err are dead until the
\* next one.
TickDone ==
    /\ fpc' = "sleep"
    /\ pushOrder' = SelectSeq(pushOrder, LAMBDA r : r \notin Range(requests))
    /\ requests' = << >>
    /\ clnt' = Nil
    /\ i' = 0
    /\ err' = FALSE
    /\ lastBulk' = << >>

workerHist == <<accepted, lastBulk, discarded, pushOrder>>

\* worker: time.Sleep(2s); requests := []; lock.Lock()
F_Lock ==
    /\ Running
    /\ fpc = "sleep"
    /\ lock = "free"
    /\ lock' = "worker"
    /\ fpc' = "drain"
    /\ UNCHANGED <<requests, clnt, i, err, workerHist>>
    /\ UNCHANGED <<settings, client, buffer, failedBuffer, failedLock>>
    /\ UNCHANGED <<watchVars, indexVars>>

\* A copy loop that stops one element short of the back.
DrainedButLast(buf) == SubSeq(buf, 1, Len(buf) - 1)

\* A copy loop that walks the list back to front.
RECURSIVE DrainedReversed(_)
DrainedReversed(buf) ==
    IF buf = << >> THEN << >>
    ELSE Append(DrainedReversed(Tail(buf)), Head(buf))

\* worker: the list copied front to back.
Drained(buf) == buf

\* A worker that copies the list and leaves it in place.
F_DrainNoSwap ==
    /\ Running
    /\ fpc = "drain"
    /\ requests' = Drained(buffer)
    /\ lock' = "free"
    /\ fpc' = "read"
    /\ UNCHANGED <<clnt, i, err, workerHist>>
    /\ UNCHANGED <<settings, client, buffer, failedBuffer, failedLock>>
    /\ UNCHANGED <<watchVars, indexVars>>

\* A worker that keeps the lock after the drain.
F_DrainKeepLock ==
    /\ Running
    /\ fpc = "drain"
    /\ requests' = Drained(buffer)
    /\ buffer' = << >>
    /\ fpc' = "read"
    /\ UNCHANGED <<clnt, i, err, workerHist>>
    /\ UNCHANGED <<settings, client, failedBuffer, lock, failedLock>>
    /\ UNCHANGED <<watchVars, indexVars>>

\* worker: copy the list into requests; buffer = list.New(); lock.Unlock()
F_Drain ==
    /\ Running
    /\ fpc = "drain"
    /\ requests' = Drained(buffer)
    /\ buffer' = << >>
    /\ lock' = "free"
    /\ fpc' = "read"
    /\ UNCHANGED <<clnt, i, err, workerHist>>
    /\ UNCHANGED <<settings, client, failedBuffer, failedLock>>
    /\ UNCHANGED <<watchVars, indexVars>>

\* worker: clnt := client
F_ReadClient ==
    /\ Running
    /\ fpc = "read"
    /\ clnt' = client
    /\ fpc' = "check"
    /\ UNCHANGED <<requests, i, err, workerHist>>
    /\ UNCHANGED <<sharedVars, watchVars, indexVars>>

\* A worker that puts the batch back in buffer when it finds client nil.
F_CheckRequeue ==
    /\ Running
    /\ fpc = "check"
    /\ IF client = Nil
       THEN /\ lock = "free"
            /\ buffer' = requests \o buffer
            /\ fpc' = "sleep"
            /\ requests' = << >>
            /\ clnt' = Nil
            /\ i' = 0
            /\ err' = FALSE
            /\ UNCHANGED <<lastBulk, discarded, pushOrder>>
       ELSE IF Len(requests) = 0
       THEN /\ TickDone
            /\ UNCHANGED <<discarded, buffer>>
       ELSE /\ fpc' = "bulk"
            /\ i' = 0
            /\ UNCHANGED <<requests, clnt, err, lastBulk, discarded, pushOrder>>
            /\ UNCHANGED buffer
    /\ UNCHANGED accepted
    /\ UNCHANGED <<settings, client, failedBuffer, lock, failedLock>>
    /\ UNCHANGED <<watchVars, indexVars>>

\* worker: if client == nil { continue }; if len(requests) == 0 { continue }
\* The test reads the package variable client again, not the local clnt.
F_Check ==
    /\ Running
    /\ fpc = "check"
    /\ IF client = Nil
       THEN /\ TickDone
            /\ discarded' = discarded \cup Range(requests)
       ELSE IF Len(requests) = 0
       THEN /\ TickDone
            /\ UNCHANGED discarded
       ELSE /\ fpc' = "bulk"
            /\ i' = 0
            /\ UNCHANGED <<requests, clnt, err, lastBulk, discarded, pushOrder>>
    /\ UNCHANGED accepted
    /\ UNCHANGED <<sharedVars, watchVars, indexVars>>

\* A worker that takes the handle from the package variable at each attempt.
BulkHandleCurrent == client

\* worker: the handle a bulk attempt goes through.
BulkHandle == clnt

\* A worker that gives up after the first failed attempt.
AfterFailureOnce(n) == "after"

\* worker: the position after a failed attempt: sleep 1s and go round again
\* while i < 10, else leave the loop.
AfterFailure(n) == IF n < MaxAttempts THEN "bulk" ELSE "after"

\* worker: one pass of the retry loop: clnt.Bulk(), bulk.Add of every
\* request in order, bulk.Do; a success leaves the loop.  Through a nil clnt
\* bulk.Do dereferences nil.
F_Bulk(ok) ==
    /\ Running
    /\ fpc = "bulk"
    /\ IF BulkHandle = Nil
       THEN /\ fpc' = "crashed"
            /\ UNCHANGED <<requests, clnt, i, err, accepted, lastBulk>>
       ELSE /\ lastBulk' = <<BulkHandle, requests>>
            /\ IF ok
               THEN /\ accepted' = [r \in 1..MaxRequests |->
                                      IF r \in Range(requests)
                                      THEN Bump(accepted[r]) ELSE accepted[r]]
                    /\ err' = FALSE
                    /\ fpc' = "after"
                    /\ UNCHANGED i
               ELSE /\ err' = TRUE
                    /\ i' = i + 1
                    /\ fpc' = AfterFailure(i + 1)
                    /\ UNCHANGED accepted
            /\ UNCHANGED <<requests, clnt>>
    /\ UNCHANGED <<discarded, pushOrder>>
    /\ UNCHANGED <<sharedVars, watchVars, indexVars>>

\* worker: after the loop with err == nil: the batch is done.
F_Delivered ==
    /\ Running
    /\ fpc = "after"
    /\ ~err
    /\ TickDone
    /\ UNCHANGED <<accepted, discarded>>
    /\ UNCHANGED <<sharedVars, watchVars, indexVars>>

\* worker: after the loop with err != nil: failedLock.Lock()
F_FailLock ==
    /\ Running
    /\ fpc = "after"
    /\ err
    /\ failedLock = "free"
    /\ failedLock' = "worker"
    /\ fpc' = "failAppend"
    /\ UNCHANGED <<requests, clnt, i, err, workerHist>>
    /\ UNCHANGED <<settings, client, buffer, failedBuffer, lock>>
    /\ UNCHANGED <<watchVars, indexVars>>

\* A worker that puts the batch in front of failedBuffer.
F_FailAppendFront ==
    /\ Running
    /\ fpc = "failAppend"
    /\ failedBuffer' = requests \o failedBuffer
    /\ failedLock' = "free"
    /\ TickDone
    /\ UNCHANGED <<accepted, discarded>>
    /\ UNCHANGED <<settings, client, buffer, lock>>
    /\ UNCHANGED <<watchVars, indexVars>>

\* A worker that keeps failedLock after the append.
F_FailAppendKeepLock ==
    /\ Running
    /\ fpc = "failAppend"
    /\ failedBuffer' = failedBuffer \o requests
    /\ TickDone
    /\ UNCHANGED <<accepted, discarded>>
    /\ UNCHANGED <<settings, client, buffer, lock, failedLock>>
    /\ UNCHANGED <<watchVars, indexVars>>

\* A worker that parks the batch without its first request.
F_FailAppendTail ==
    /\ Running
    /\ fpc = "failAppend"
    /\ failedBuffer' = failedBuffer \o Tail(requests)
    /\ failedLock' = "free"
    /\ TickDone
    /\ UNCHANGED <<accepted, discarded>>
    /\ UNCHANGED <<settings, client, buffer, lock>>
    /\ UNCHANGED <<watchVars, indexVars>>

\* worker: failedBuffer = append(failedBuffer, requests...);
\* failedLock.Unlock(); log; err = nil; next tick
F_FailAppend ==
    /\ Running
    /\ fpc = "failAppend"
    /\ failedBuffer' = failedBuffer \o requests
    /\ failedLock' = "free"
    /\ TickDone
    /\ UNCHANGED <<accepted, discarded>>
    /\ UNCHANGED <<settings, client, buffer, lock>>
    /\ UNCHANGED <<watchVars, indexVars>>

\* ------------------------------------------------------------------- Spec

Next ==
    \/ \E as \in AddrLists : SetAddresses(as)
    \/ W_Poll
    \/ W_UpdateEmpty
    \/ \E res \in Outcomes : W_Update(res)
    \/ W_Return
    \/ \E p \in Callers : I_Read(p)
    \/ \E p \in Callers : I_Dropped(p)
    \/ \E p \in Callers : I_Lock(p)
    \/ \E p \in Callers : I_Push(p)
    \/ F_Lock
    \/ F_Drain
    \/ F_ReadClient
    \/ F_Check
    \/ \E ok \in BOOLEAN : F_Bulk(ok)
    \/ F_Delivered
    \/ F_FailLock
    \/ F_FailAppend

Spec == Init /\ [][Next]_vars

\* The same program against a backend that never returns an error: every
\* update of a non-empty list succeeds and every bulk submission is accepted,
\* so the worker never reaches the failedBuffer steps.
NextHealthy ==
    \/ \E as \in AddrLists : SetAddresses(as)
    \/ W_Poll
    \/ W_UpdateEmpty
    \/ \E res \in {"exists", "created"} : W_Update(res)
    \/ W_Return
    \/ \E p \in Callers : I_Read(p)
    \/ \E p \in Callers : I_Dropped(p)
    \/ \E p \in Callers : I_Lock(p)
    \/ \E p \in Callers : I_Push(p)
    \/ F_Lock
    \/ F_Drain
    \/ F_ReadClient
    \/ F_Check
    \/ F_Bulk(TRUE)
    \/ F_Delivered

SpecHealthy == Init /\ [][NextHealthy]_vars

\* putIndex on its own: update is about to run on a non-empty list, and the
\* mapping list it hands to putIndex is any list of at most MaxFields
\* mappings with distinct field names (update's own list has distinct names).
MapFields == {"user", "query", "body"}
MapTypes == {"object", "text"}
MapIndexes == {"analyzed", "no"}
MappingSet ==
    {Mapping(f, t, st, x) : f \in MapFields, t \in MapTypes,
                            st \in BOOLEAN, x \in MapIndexes}
MappingLists ==
    {ms \in UNION {[1..n -> MappingSet] : n \in 0..MaxFields} :
        \A j, k \in 1..Len(ms) : j # k => ms[j].Field # ms[k].Field}

MapInit ==
    /\ InitRest
    /\ settings = <<"a">>
    /\ wpc = "update"
    /\ addrs = <<"a">>
    /\ mappings \in MappingLists

MapNext == \E res \in Outcomes : W_Update(res)

MapSpec == MapInit /\ [][MapNext]_vars

\* The watcher on its own, with address lists of up to MaxAddrs addresses
\* taken from Addresses: lists that differ in their elements, in their order
\* or in how the same characters are split into elements.
Addresses == {"", "a", "b", "ab"}
WideAddrLists == UNION {[1..n -> Addresses] : n \in 0..MaxAddrs}

WatchNext ==
    \/ \E as \in WideAddrLists : SetAddresses(as)
    \/ W_Poll
    \/ W_UpdateEmpty
    \/ \E res \in Outcomes : W_Update(res)
    \/ W_Return

WatchSpec == Init /\ [][WatchNext]_vars

\* ================================================================= claims

IsPrefix(s, t) == Len(s) <= Len(t) /\ SubSeq(t, 1, Len(s)) = s
NoDuplicates(s) == \A j, k \in 1..Len(s) : j # k => s[j] # s[k]

\* The requests Index has appended to buffer so far.
Pushed == {r \in 1..nextId : \A p \in Callers : ireq[p] # r}
\* Drained by the tick in progress, its bulk submission still ahead.
InFlight(r) == r \in Range(requests) /\ fpc \in {"read", "check", "bulk"}
\* Waiting in buffer or in flight.
Pending(r) == r \in Range(buffer) \/ InFlight(r)
\* In a batch the worker gave up: dropped at "client == nil", or held by a
\* worker that crashed on the nil handle it had read.
GivenUp(r) ==
    \/ r \in discarded
    \/ fpc = "crashed" /\ clnt = Nil /\ r \in Range(requests)

\* The latest bulk submission carries its requests in PushBack order.
BulkInOrder == lastBulk # << >> => IsPrefix(lastBulk[2], pushOrder)
\* Requests in buffer, in flight, and in the hands of callers have pairwise
\* distinct ids.
IdsDistinct ==
    /\ NoDuplicates(pushOrder)
    /\ \A p, q \in Callers : p # q /\ ireq[p] # 0 => ireq[p] # ireq[q]
    /\ \A p \in Callers : ireq[p] \notin Range(pushOrder)

\* C1 as stated (backend without errors, SpecHealthy): every request Index
\* has pushed is waiting for its bulk submission or was carried by exactly
\* one, a submission carries its requests in push order, and ids are
\* distinct.
C1_EveryPushedRequestInExactlyOneBulk ==
    /\ \A r \in Pushed : IF accepted[r] = 0 THEN Pending(r)
                         ELSE accepted[r] = 1 /\ ~Pending(r)
    /\ BulkInOrder
    /\ IdsDistinct

\* C1 amended (SpecHealthy): no pushed request is carried by more than one
\* bulk submission; one that was carried by none is still waiting, or was
\* drained on a tick on which the worker read the handle as nil (the batch
\* is dropped, or the worker crashes on it) and is then carried by none
\* for ever; submissions keep push order and ids are distinct.
C1_PushedRequestInOneBulkUnlessHandleNil ==
    /\ \A r \in Pushed : IF accepted[r] = 0 THEN Pending(r) \/ GivenUp(r)
                         ELSE accepted[r] = 1 /\ ~Pending(r) /\ ~GivenUp(r)
    /\ \A r \in discarded : r \in Pushed /\ ~Pending(r)
    /\ BulkInOrder
    /\ IdsDistinct

\* C1 witness: one bulk submission has carried two requests, in push order.
C1_TwoRequestsDeliveredInOneBulk ==
    /\ fpc = "after"
    /\ Len(requests) = 2
    /\ lastBulk = <<clnt, requests>>
    /\ \A r \in Range(requests) : accepted[r] = 1

\* A step of caller p inside an Index call that found client nil.
DroppedCallStep(p) ==
    \/ ipc[p] = "idle" /\ client = Nil /\ ipc'[p] # "idle"
    \/ ipc[p] = "dropped" /\ ipc'[p] # "dropped"

\* C2 (Spec): an Index call that reads client as nil returns at once: it
\* builds no request, takes no lock, and its steps leave buffer,
\* failedBuffer and client as they are.
C2_IndexOnNilHandleChangesNothing ==
    [][\A p \in Callers : DroppedCallStep(p) =>
          /\ ipc'[p] = (IF ipc[p] = "idle" THEN "dropped" ELSE "idle")
          /\ UNCHANGED <<buffer, failedBuffer, client, lock, failedLock>>
          /\ UNCHANGED <<nextId, ireq, pushOrder>>]_vars

\* C2 witness: a call is returning on the nil test while buffer still holds
\* a request pushed earlier.
C2_CallDroppedWhileBufferHoldsRequest ==
    \E p \in Callers : ipc[p] = "dropped" /\ client = Nil /\ buffer # << >>

\* The worker's step that appends to failedBuffer.
DeadLetterStep == fpc = "failAppend" /\ fpc' # "failAppend"

\* What C3 says of dead-lettering apart from the state of buffer afterwards:
\* failedBuffer changes only in the dead-letter step, which comes after
\* MaxAttempts failed attempts on a non-empty batch and appends the whole
\* batch once; a batch whose attempts all failed goes nowhere else; and no
\* later bulk submission carries a request that is in failedBuffer.
DeadLetterRules ==
    /\ failedBuffer' # failedBuffer => DeadLetterStep
    /\ DeadLetterStep =>
          /\ failedBuffer' = failedBuffer \o requests
          /\ Len(requests) >= 1
          /\ i = MaxAttempts /\ err
          /\ fpc' = "sleep"
    /\ fpc = "after" /\ err /\ fpc' # fpc => fpc' = "failAppend"
    /\ fpc = "bulk" /\ i = MaxAttempts - 1 /\ err' /\ fpc' # fpc =>
          fpc' = "after"
    /\ lastBulk' # << >> => Range(lastBulk'[2]) \cap Range(failedBuffer') = {}
    /\ Range(failedBuffer') \cap (Range(buffer') \cup Range(requests')) = {}
    /\ NoDuplicates(failedBuffer')

\* C3 as stated (Spec): after MaxAttempts failed attempts the batch is
\* appended whole and once to failedBuffer, is never submitted again, and
\* buffer is empty after the dead-letter step.
C3_DeadLetterLeavesBufferEmpty ==
    [][DeadLetterRules /\ (DeadLetterStep => buffer' = << >>)]_vars

\* C3 amended (Spec): after MaxAttempts failed attempts the batch is
\* appended whole and once to failedBuffer and is never submitted again;
\* after the dead-letter step buffer holds none of the batch, only what
\* Index pushed since the drain.
C3_DeadLetterKeepsBatchOutOfBuffer ==
    [][DeadLetterRules /\
       (DeadLetterStep =>
            /\ buffer' = buffer
            /\ Range(buffer') \cap Range(requests) = {})]_vars

\* C3 witness: a batch is in failedBuffer, the worker is back at its sleep,
\* and buffer holds a request pushed during the retries.
C3_DeadLetteredWhileBufferRefilled ==
    /\ fpc = "sleep"
    /\ Len(failedBuffer) >= 1
    /\ buffer # << >>

\* C4 as stated (Spec): the worker goroutine never dies.
C4_WorkerNeverCrashes == fpc # "crashed"

\* C5 (Spec): client is non-nil only while the index has been found or
\* created through the object it holds, and it takes a new non-nil value
\* only in the step that ends an update whose newClient succeeded and whose
\* putIndex found or created the index through that object.
C5_HandlePresentOnlyAfterFullSuccess ==
    [][/\ client' # Nil => verified'
       /\ client' # client /\ client' # Nil =>
             /\ wpc = "update" /\ wpc' = "ret"
             /\ outcome' \in {"exists", "created"}
             /\ ~uerr'
             /\ client' = NewObject(addrs)]_vars

\* C5 witness: update has just stored a client through which it created the
\* index.
C5_ClientStoredAfterIndexCreated ==
    /\ wpc = "ret"
    /\ outcome = "created"
    /\ client # Nil
    /\ payload # << >>

\* The step in which update constructs a client (and may create the index)
\* for the list that is configured now.
ConstructStep ==
    /\ wpc = "update" /\ wpc' = "ret"
    /\ Len(addrs) # 0
    /\ addrs = settings

\* C6 as stated (Spec): while the configured list stays the same the watcher
\* constructs a client for it (and calls index creation) at most once.
C6_AtMostOneConstructionPerList ==
    [][ConstructStep => tried = "no"]_vars

\* C6 amended (Spec): once an update of the configured list has succeeded,
\* the watcher constructs no client and creates no index for it again while
\* it stays configured; update is entered only from a poll that finds the
\* hash of the configured list different from the stored one, once per
\* iteration and with that list; a failed update may be followed by another.
C6_NoConstructionAfterSuccess ==
    [][/\ ConstructStep => tried # "ok"
       /\ wpc' = "update" /\ wpc # "update" =>
             /\ wpc = "poll"
             /\ Changed(settings)
             /\ addrs' = settings
       /\ wpc = "update" /\ wpc' # wpc => wpc' = "ret"
       /\ wpc = "poll" /\ ~Changed(settings) => wpc' = "poll"]_vars

\* C6 witness: the configured list was applied, client holds its object and
\* the watcher is polling again.
C6_ListAppliedAndPolling ==
    /\ wpc = "poll"
    /\ tried = "ok"
    /\ settings # << >>
    /\ client = NewObject(settings)
    /\ ~Changed(settings)

\* C7 (Spec): when update returns an error the stored hash stays as it is,
\* still different from the hash of the list just tried, and client is nil;
\* the next poll of a list whose hash differs calls update with it again;
\* the stored hash changes only when update returns without error, to the
\* hash of the list just applied, with client holding that list's object.
C7_HashKeptOnFailureAdoptedOnSuccess ==
    [][/\ wpc = "ret" /\ wpc' # wpc =>
             /\ wpc' = "poll"
             /\ IF uerr
                THEN /\ hash' = hash
                     /\ hash' # hashAddresses(addrs)
                     /\ client = Nil
                ELSE /\ hash' = hashAddresses(addrs)
                     /\ Len(addrs) # 0 => client = NewObject(addrs)
       /\ hash' # hash => wpc = "ret" /\ ~uerr
       /\ wpc = "poll" /\ wpc' # wpc /\ Changed(settings) =>
             wpc' = "update" /\ addrs' = settings]_vars

\* C7 witness: the watcher is in update again for the configured list,
\* whose previous update failed.
C7_RetryingFailedList ==
    /\ wpc = "update"
    /\ tried = "failed"
    /\ addrs = settings
    /\ client = Nil

\* C8 (Spec): an update that fails at newClient, at IndexExists or at
\* CreateIndex leaves client nil and returns an error; an update of the
\* empty list leaves client nil and returns no error, and the watcher then
\* adopts the hash of the empty list.
C8_FailureOrEmptyListLeavesHandleNil ==
    [][/\ wpc = "update" /\ wpc' # wpc =>
             /\ outcome' \in {"clientErr", "existsErr", "createErr"} =>
                   client' = Nil /\ uerr'
             /\ Len(addrs) = 0 =>
                   outcome' = "empty" /\ client' = Nil /\ ~uerr'
       /\ wpc = "ret" /\ outcome = "empty" /\ wpc' # wpc =>
             hash' = hashAddresses(<< >>)]_vars

\* C8 witness: update has just failed at CreateIndex and left client nil
\* while buffer holds a request pushed when client was not nil.
C8_CreateFailedAfterHandleWasPresent ==
    /\ wpc = "ret"
    /\ outcome = "createErr"
    /\ uerr
    /\ client = Nil
    /\ buffer # << >>

\* The worker holds lock only at its drain, a caller only at its push.
LockHeldOnlyForBufferAccess ==
    /\ lock \in {"free", "worker"} \cup Callers
    /\ lock = "worker" => fpc = "drain"
    /\ \A p \in Callers : lock = p => ipc[p] = "push"

\* Outside the worker's drain step buffer only grows at its back.
BufferKeptOutsideDrain == fpc # "drain" => IsPrefix(buffer, buffer')

\* C9 (Spec): the worker holds lock only for the drain, never during a bulk
\* attempt, a retry sleep or the failedBuffer append, and the watcher never
\* holds it; so whoever holds lock releases it in its next step, and what
\* Index pushes meanwhile stays in buffer until a later drain.
C9_LockNeverHeldAcrossBackendCalls ==
    [](LockHeldOnlyForBufferAccess) /\ [][BufferKeptOutsideDrain]_vars

\* C9 witness: a caller holds lock and is about to push while the worker is
\* between two attempts of its retry loop.
C9_CallerPushesDuringRetryLoop ==
    /\ fpc = "bulk"
    /\ i > 0
    /\ \E p \in Callers : lock = p /\ ipc[p] = "push"

\* The Field names of a mapping list.
DeclaredFields(ms) == {ms[k].Field : k \in 1..Len(ms)}

\* C10 (MapSpec): the body putIndex hands to CreateIndex has, under the
\* document type, one property per declared field and no other; the
\* property of a field of type "object" is {"enabled": false} whatever its
\* Store and Index, that of any other field is its {type, store, index}.
C10_MappingFidelity ==
    wpc = "ret" /\ Creates(outcome) =>
        /\ DOMAIN payload = {"mappings"}
        /\ DOMAIN payload.mappings = {"request"}
        /\ DOMAIN payload.mappings["request"] = {"properties"}
        /\ LET props == payload.mappings["request"].properties
           IN /\ DOMAIN props = DeclaredFields(mappings)
              /\ \A k \in 1..Len(mappings) :
                    LET m == mappings[k]
                    IN IF m.Type = "object"
                       THEN props[m.Field] = [enabled |-> FALSE]
                       ELSE /\ DOMAIN props[m.Field] = {"type", "store", "index"}
                            /\ props[m.Field].type = m.Type
                            /\ props[m.Field].store = m.Store
                            /\ props[m.Field].index = m.Index

\* C10 witness: CreateIndex was called with a body built from a list that
\* declares an "object" field with Store set next to a field of another type.
C10_ObjectFieldWithFlagsSerialized ==
    /\ wpc = "ret"
    /\ outcome = "created"
    /\ \E j, k \in 1..Len(mappings) :
          /\ mappings[j].Type = "object" /\ mappings[j].Store
          /\ mappings[k].Type # "object"

\* The worker's drain step.
DrainStep == fpc = "drain" /\ fpc' # "drain"
\* The worker's step that leaves the tick at "client == nil" with a batch.
DiscardStep ==
    fpc = "check" /\ client = Nil /\ requests # << >> /\ fpc' # "check"

\* A discarded request is nowhere: not in buffer, not in the worker's batch,
\* not in failedBuffer, in no bulk submission.
DiscardedGone ==
    \A r \in discarded :
        /\ r \notin Range(buffer) \cup Range(requests) \cup Range(failedBuffer)
        /\ accepted[r] = 0
        /\ lastBulk # << >> => r \notin Range(lastBulk[2])

\* C11 (Spec): the worker's tick goes from its sleep to the drain without a
\* look at client, and the drain moves all of buffer into the batch whatever
\* client is; when the test then finds client nil the batch is dropped: the
\* tick ends with buffer and failedBuffer as they were and no bulk
\* submission issued, and a dropped request never shows up again.
C11_DrainUnconditionalBatchDiscardedOnNil ==
    /\ [](DiscardedGone)
    /\ [][/\ fpc = "sleep" /\ fpc' # fpc => fpc' = "drain"
          /\ DrainStep => requests' = buffer /\ buffer' = << >>
          /\ DiscardStep =>
                /\ fpc' = "sleep"
                /\ discarded' = discarded \cup Range(requests)
                /\ lastBulk = << >> /\ lastBulk' = << >>
                /\ UNCHANGED <<buffer, failedBuffer, accepted>>]_vars

\* C11 witness: the worker has drained a batch while client is nil and is
\* about to test client.
C11_BatchDrainedWhileHandleNil ==
    /\ fpc = "check"
    /\ client = Nil
    /\ clnt = Nil
    /\ requests # << >>
    /\ buffer = << >>

\* The worker's step that ends the tick of a non-empty batch (or the worker).
BatchEndStep ==
    /\ requests # << >>
    /\ fpc \in {"check", "bulk", "after", "failAppend"}
    /\ fpc' \in {"sleep", "crashed"}
\* A bulk attempt that the backend accepts / refuses.
SuccessStep == fpc = "bulk" /\ accepted' # accepted
FailureStep == fpc = "bulk" /\ i' = i + 1

\* What C12 says of the retry loop apart from "at least one": never more
\* than MaxAttempts attempts for a batch, an accepted attempt leaves the loop
\* and the tick ends without another attempt and without failedBuffer,
\* a refused attempt is followed by another while fewer than MaxAttempts
\* were made, and failedBuffer gets a batch only after MaxAttempts refused
\* attempts, none of its requests accepted.
RetryRules ==
    /\ i' <= MaxAttempts
    /\ FailureStep => i < MaxAttempts /\ err' /\ lastBulk' = <<clnt, requests>>
                      /\ fpc' = (IF i' < MaxAttempts THEN "bulk" ELSE "after")
    /\ SuccessStep => /\ i < MaxAttempts /\ ~err' /\ fpc' = "after"
                      /\ lastBulk' = <<clnt, requests>>
    /\ fpc = "after" /\ ~err /\ fpc' # fpc =>
          fpc' = "sleep" /\ failedBuffer' = failedBuffer
    /\ fpc' = "failAppend" => i' = MaxAttempts /\ err'
    /\ failedBuffer' # failedBuffer =>
          /\ i = MaxAttempts /\ err
          /\ \A r \in Range(requests) : accepted[r] = 0

\* C12 as stated (Spec): every drained non-empty batch gets at least one and
\* at most MaxAttempts bulk submissions, the first accepted one ends the
\* loop, and failedBuffer gets the batch only after MaxAttempts failures.
C12_EveryBatchGetsOneToTenAttempts ==
    [][RetryRules /\ (BatchEndStep => lastBulk # << >>)]_vars

\* C12 amended (Spec): a drained non-empty batch with which the worker
\* enters the retry loop holding a non-nil client gets at least one and at
\* most MaxAttempts bulk submissions, the first accepted one ends the loop,
\* and failedBuffer gets the batch only after MaxAttempts failures; a batch
\* gets no submission only when it is dropped at "client == nil" or when the
\* worker enters the loop with the nil client it read.
C12_BatchInRetryLoopGetsOneToTenAttempts ==
    [][/\ RetryRules
       /\ BatchEndStep /\ lastBulk = << >> =>
             \/ fpc = "check" /\ client = Nil /\ fpc' = "sleep"
             \/ fpc = "bulk" /\ clnt = Nil /\ fpc' = "crashed"
       /\ BatchEndStep /\ clnt # Nil /\ fpc # "check" =>
             /\ lastBulk = <<clnt, requests>>
             /\ fpc' = "sleep"]_vars

\* C12 witness: an attempt was accepted after some were refused.
C12_AcceptedAfterRefusals ==
    /\ fpc = "after"
    /\ ~err
    /\ i > 0
    /\ \A r \in Range(requests) : accepted[r] = 1

\* The places a pushed request r can be in.
InBuffer(r) == r \in Range(buffer)
InBatch(r) == r \in Range(requests) /\ accepted[r] = 0
Delivered(r) == accepted[r] > 0
DeadLettered(r) == r \in Range(failedBuffer)
Discarded(r) == r \in discarded
Places(r) ==
    {pl \in {"buffer", "batch", "delivered", "deadLetter", "discarded"} :
        \/ pl = "buffer" /\ InBuffer(r)
        \/ pl = "batch" /\ InBatch(r)
        \/ pl = "delivered" /\ Delivered(r)
        \/ pl = "deadLetter" /\ DeadLettered(r)
        \/ pl = "discarded" /\ Discarded(r)}

\* C13 (Spec): every request Index has pushed is in exactly one of: buffer,
\* the worker's batch, delivered, failedBuffer, discarded; it is there once;
\* and nothing else is in any of them.
C13_EveryPushedRequestInExactlyOnePlace ==
    /\ \A r \in Pushed : Cardinality(Places(r)) = 1
    /\ \A r \in (1..MaxRequests) \ Pushed : Places(r) = {}
    /\ NoDuplicates(buffer \o requests \o failedBuffer)
    /\ \A r \in Range(requests) : accepted[r] <= 1

\* C13 witness: the worker is at its drain with a request in buffer while
\* one caller waits for lock with the next request.
C13_CallerWaitsWhileWorkerDrains ==
    /\ fpc = "drain"
    /\ buffer # << >>
    /\ \E p \in Callers : ipc[p] = "lock" /\ ireq[p] # 0

\* The worker's batch is the front of what was pushed and not yet through a
\* finished tick, buffer is the rest: every request of the batch was pushed
\* before every request a later batch can be made of.
BatchBeforeBuffer == pushOrder = requests \o buffer

\* A step that issues a bulk submission.
BulkStep == lastBulk' # << >> /\ (lastBulk = << >> \/ i' # i \/ accepted' # accepted)

\* C14 (Spec): a drain takes all of buffer, which is everything pushed since
\* the previous drain, in push order; Index appends behind what is there;
\* so batches are consecutive stretches of the push order, and every bulk
\* submission lists the requests of its batch in that order.
C14_BatchesFollowPushOrder ==
    /\ [](BatchBeforeBuffer)
    /\ [][/\ DrainStep => requests' = pushOrder /\ buffer' = << >>
          /\ buffer' # buffer /\ ~DrainStep =>
                \E r \in 1..MaxRequests :
                    /\ buffer' = Append(buffer, r)
                    /\ pushOrder' = Append(pushOrder, r)
          /\ BulkStep =>
                /\ lastBulk'[2] = requests
                /\ IsPrefix(lastBulk'[2], pushOrder)]_vars

\* C14 witness: a bulk attempt is about to carry two requests that were
\* pushed in the opposite order of their ids.
C14_BatchInPushOrderNotIdOrder ==
    /\ fpc = "bulk"
    /\ clnt # Nil
    /\ Len(requests) = 2
    /\ requests[1] > requests[2]

\* C15 (Spec): in every step failedBuffer keeps what it holds as a prefix;
\* it grows only in the worker's append under failedLock, by the whole batch
\* whose MaxAttempts attempts all failed; and a request in it is in no later
\* bulk submission, not in the worker's batch and not in buffer.
C15_DeadLetterBufferAppendOnly ==
    [][/\ IsPrefix(failedBuffer, failedBuffer')
       /\ failedBuffer' # failedBuffer =>
             /\ fpc = "failAppend" /\ failedLock = "worker"
             /\ \A p \in Callers : ipc'[p] = ipc[p]
             /\ wpc' = wpc
             /\ SubSeq(failedBuffer', Len(failedBuffer) + 1, Len(failedBuffer'))
                   = requests
             /\ i = MaxAttempts /\ err
       /\ \A r \in Range(failedBuffer) :
             /\ r \notin Range(buffer') \cup Range(requests')
             /\ BulkStep => r \notin Range(lastBulk'[2])]_vars

\* C15 witness: the worker is about to append a second batch to a
\* failedBuffer that already holds one.
C15_SecondBatchAboutToBeAppended ==
    /\ fpc = "failAppend"
    /\ failedBuffer # << >>
    /\ requests # << >>

\* C16 (Spec): nobody holds lock and failedLock together; lock is held only
\* by a caller at its push or the worker at its drain, failedLock only by
\* the worker at its append; and while the process runs the holder's next
\* step, which releases the lock, is enabled whatever the others do, so
\* nobody waits for a lock for ever.
C16_LocksNeverNestedAlwaysReleased ==
    /\ lock \in {"free", "worker"} \cup Callers
    /\ failedLock \in {"free", "worker"}
    /\ ~(lock = "worker" /\ failedLock = "worker")
    /\ lock = "worker" => fpc = "drain" /\ (Running => ENABLED F_Drain)
    /\ failedLock = "worker" =>
          fpc = "failAppend" /\ (Running => ENABLED F_FailAppend)
    /\ \A p \in Callers :
          lock = p => ipc[p] = "push" /\ (Running => ENABLED I_Push(p))
    /\ Running /\ fpc = "sleep" /\ lock = "free" => ENABLED F_Lock
    /\ Running /\ fpc = "after" /\ err => failedLock = "free" /\ ENABLED F_FailLock
    /\ \A p \in Callers :
          Running /\ ipc[p] = "lock" /\ lock = "free" => ENABLED I_Lock(p)

\* C16 witness: the worker holds failedLock while a caller holds lock.
C16_BothLocksHeldByDifferentTasks ==
    /\ failedLock = "worker"
    /\ \E p \in Callers : lock = p

\* C17 as stated (Spec): whenever the worker is in its retry loop, the
\* client it goes through, the one it read for the batch, is not nil.
C17_RetryLoopHandleNeverNil == fpc = "bulk" => BulkHandle # Nil

\* C18 as stated (Spec): whenever the watcher is at its poll and the stored
\* hash equals the hash of the configured list, client is non-nil if that
\* list is non-empty and nil if it is empty.
C18_HandleMatchesListWhenHashMatches ==
    wpc = "poll" /\ ~Changed(settings) =>
        (client # Nil <=> settings # << >>)

\* C19 as stated (WatchSpec): the stored hash is the hash of one list only:
\* whenever the watcher is at its poll and the configured list is not the
\* list whose hash is stored, the hashes differ, so this poll calls update.
C19_DifferentListDifferentHash ==
    wpc = "poll" /\ settings # hashed =>
        /\ hashAddresses(settings) # hashAddresses(hashed)
        /\ Changed(settings)

\* C20 (Spec): every bulk attempt of a batch goes through the client the
\* worker read after the drain and carries the whole batch, the same as the
\* attempt before it; from that read to the end of the loop clnt and
\* requests stay as they are whatever the watcher writes to client, and a
\* write to client neither ends the loop nor moves the worker.
C20_AllAttemptsThroughOneSnapshot ==
    [][/\ BulkStep =>
             /\ lastBulk' = <<clnt, requests>>
             /\ lastBulk # << >> => lastBulk' = lastBulk
       /\ fpc \in {"check", "bulk"} /\ fpc' \in {"bulk", "after"} =>
             clnt' = clnt /\ requests' = requests
       /\ client' # client =>
             UNCHANGED <<fpc, clnt, requests, i, err, lastBulk>>]_vars

\* C20 witness: the worker is between two attempts made through the client
\* it read, while the watcher has since stored another one.
C20_RetryingThroughReplacedHandle ==
    /\ fpc = "bulk"
    /\ i > 0
    /\ lastBulk = <<clnt, requests>>
    /\ clnt # Nil
    /\ client # Nil
    /\ client # clnt

====
